---- MODULE Spec2Model ----
(***************************************************************************)
(* A model of the memory scanner of antoniwan/gametool: the MemoryScanner  *)
(* object of memory_scanner.py (region discovery, scan, filter_scan,       *)
(* write_value, attach, detach), the codec of data_types.py, and the menu  *)
(* loop of main.py that drives it.  The target process is the environment: *)
(* its memory contents and the set of accessible addresses change at any   *)
(* time, between any two handle operations of the scanner.                 *)
(*                                                                         *)
(* The address space is scaled down: one page is one byte, a chunk is two  *)
(* pages, the walk of region discovery ends at MAX_ADDRESS.  Loops of the  *)
(* code advance one iteration per step (one descriptor query, one chunk    *)
(* read, one re-read of an entry), so that the environment and an operator *)
(* interrupt can fall between any two iterations, as they can in the code. *)
(***************************************************************************)
EXTENDS Integers, Sequences, FiniteSets, TLC

\* ------------------------------------------------------------ constants
\* memory_scanner.py:69, max_address = 0x2000000000, scaled to 3 pages
MAX_ADDRESS == 3
\* memory_scanner.py:97, the page size 0x1000, scaled to one byte
PAGE_SIZE == 1
\* memory_scanner.py:159, chunk_size = 64 * 1024, scaled to two pages
CHUNK_SIZE == 2
\* memory_scanner.py:82, MEM_COMMIT; any other State is not committed
MEM_COMMIT == 4096
\* a State other than MEM_COMMIT (MEM_FREE)
NOT_COMMITTED == 16 * MEM_COMMIT

\* ------------------------------------------------------------ bounds
\* the largest RegionSize a descriptor query reports, in pages
MaxRegionSize == 3
\* how many handles the program may hold open at once
MaxHandles == 1

Addr == 0..(MAX_ADDRESS - 1)
\* the byte values the target process itself stores
EnvBytes == {0, 1}
\* the values a caller passes to scan, filter_scan and write_value
Values == {1, 256, 32768}

Min(a, b) == IF a < b THEN a ELSE b

\* Optional[...]: None is the empty sequence, a present value x is <<x>>
None == <<>>
Some(x) == <<x>>

\* ------------------------------------------------------------ data_types.py
DATA_TYPES ==
  [int8  |-> [name |-> "int8",  size |-> 1, min_val |-> -128,   max_val |-> 127],
   int16 |-> [name |-> "int16", size |-> 2, min_val |-> -32768, max_val |-> 32767]]

TypeNames == {"int8", "int16"}

\* struct.pack raises struct.error for an integer outside the format's range
CanPack(dt, v) == v >= DATA_TYPES[dt].min_val /\ v <= DATA_TYPES[dt].max_val

\* struct.pack(struct_code, v): little-endian two's complement, size bytes
Pack(dt, v) ==
  LET n == DATA_TYPES[dt].size
      u == v % (256 ^ n)
  IN  [i \in 1..n |-> (u \div (256 ^ (i - 1))) % 256]

RECURSIVE LittleEndian(_)
LittleEndian(bytes) ==
  IF bytes = <<>> THEN 0 ELSE Head(bytes) + 256 * LittleEndian(Tail(bytes))

\* struct.unpack(struct_code, data)[0]
Unpack(dt, bytes) ==
  LET u == LittleEndian(bytes)
  IN  IF u > DATA_TYPES[dt].max_val THEN u - 256 ^ DATA_TYPES[dt].size ELSE u

VARIABLES
  \* the target process
  mem,              \* Addr -> byte: the contents of its memory
  mapped,           \* the addresses a read or write can access now
  handles,          \* how many handles to it this program holds open
  \* the MemoryScanner object
  pm,               \* "None" or "open": self.pm
  current_results,  \* the list of <<address, value>>
  data_type,        \* "None" or a type name
  cached_regions,   \* None or Some(list of <<start, size>>)
  \* the method being executed and its locals
  pc,               \* "idle", "discover", "scan", "filter"
  target_value,     \* the parameter target_value / new_value
  target_bytes,     \* the packed target
  address,          \* _get_readable_memory_regions: the walk's address
  regions,          \* _get_readable_memory_regions: the list being built
  region_idx,       \* scan: the index of the region being read
  offset,           \* scan: the offset of the chunk being read
  entry_idx,        \* filter_scan: the index of the entry being re-read
  new_results,      \* filter_scan: the list being built
  ret,              \* what the last call returned or raised
  \* observation of the run
  last_io,          \* the handle operation the last step issued:
                    \* <<operation, address, length or reported State>>
  discovery_ran,    \* region discovery was started since the last attach
                    \* or detach
  read_failed,      \* a chunk read of the running scan failed
  mem_changed,      \* the target's memory changed during the running scan
  last_write,       \* Some(<<address, value>>) from a successful write_value
                    \* until the target changes or another call is made
  \* main(): its position and locals
  mpc,              \* "api" (no main), "attach", "choose_type", "menu", ...
  main_data_type,   \* main's data_type
  scanning_started, \* main's scanning_started
  new_value         \* main's new_value, between write_value and filter_scan

env     == <<mem, mapped>>
object  == <<pm, current_results, data_type, cached_regions>>
frame   == <<pc, target_value, target_bytes, address, regions, region_idx,
             offset, entry_idx, new_results, read_failed, mem_changed>>
main    == <<mpc, main_data_type, scanning_started, new_value>>
scanner == <<handles, pm, current_results, data_type, cached_regions, pc,
             target_value, target_bytes, address, regions, region_idx, offset,
             entry_idx, new_results, read_failed, ret, last_io, discovery_ran>>
vars    == <<mem, mapped, handles, pm, current_results, data_type,
             cached_regions, pc, target_value, target_bytes, address, regions,
             region_idx, offset, entry_idx, new_results, read_failed,
             mem_changed, ret, last_io, discovery_ran, last_write,
             mpc, main_data_type, scanning_started, new_value>>

NoIo == <<"none", 0, 0>>
NoRet == [kind |-> "none", val |-> 0]
Returned(n) == [kind |-> "return", val |-> n]
Raised(e) == [kind |-> e, val |-> 0]

\* the locals of a method that is not running
IdleFrame ==
  /\ pc' = "idle"
  /\ target_value' = 0
  /\ target_bytes' = <<>>
  /\ address' = 0
  /\ regions' = <<>>
  /\ region_idx' = 0
  /\ offset' = 0
  /\ entry_idx' = 0
  /\ new_results' = <<>>
  /\ read_failed' = FALSE
  /\ mem_changed' = FALSE

\* ------------------------------------------------------------ the handle
\* pm.read_bytes(a, n) returns n bytes when the handle is open and the whole
\* range is accessible, and raises otherwise (with self.pm None: AttributeError)
ReadOk(a, n) == pm = "open" /\ \A k \in a..(a + n - 1) : k \in mapped

Bytes(a, n) == [i \in 1..n |-> mem[a + i - 1]]

\* what a read does: "ok", "fail" (an Exception) or "interrupt"
\* (KeyboardInterrupt delivered while the read is in progress)
ReadOutcomes(a, n) == (IF ReadOk(a, n) THEN {"ok"} ELSE {"fail"}) \cup {"interrupt"}

\* what pm.virtual_query(address) does; a descriptor reports at least one page
QueryOutcomes ==
  IF pm = "open"
  THEN {[kind |-> "fail", RegionSize |-> 0, State |-> 0],
        [kind |-> "interrupt", RegionSize |-> 0, State |-> 0]}
       \cup [kind : {"ok"}, RegionSize : 1..MaxRegionSize,
             State : {MEM_COMMIT, NOT_COMMITTED}]
  ELSE {[kind |-> "fail", RegionSize |-> 0, State |-> 0]}

\* pm.write_bytes(a, packed, n) writes when the handle is open and the range is
\* accessible, unless the pages are protected; otherwise it raises
WriteOutcomes(a, n) ==
  IF pm = "open" /\ \A k \in a..(a + n - 1) : k \in mapped
  THEN {"ok", "fail"}
  ELSE {"fail"}

\* ------------------------------------------------------------ construction
\* MemoryScanner.__init__, and a target process in any state
ScannerInit ==
  /\ mem \in [Addr -> EnvBytes]
  /\ mapped \in SUBSET Addr
  /\ handles = 0
  /\ pm = "None"
  /\ current_results = <<>>
  /\ data_type = "None"
  /\ cached_regions = None
  /\ pc = "idle"
  /\ target_value = 0
  /\ target_bytes = <<>>
  /\ address = 0
  /\ regions = <<>>
  /\ region_idx = 0
  /\ offset = 0
  /\ entry_idx = 0
  /\ new_results = <<>>
  /\ ret = NoRet
  /\ last_io = NoIo
  /\ discovery_ran = FALSE
  /\ read_failed = FALSE
  /\ mem_changed = FALSE
  /\ last_write = None

\* ------------------------------------------------------------ the target
\* the target process stores a byte
MemChange ==
  /\ \E a \in Addr, b \in EnvBytes :
       /\ mem[a] # b
       /\ mem' = [mem EXCEPT ![a] = b]
  /\ mem_changed' = IF pc = "scan" THEN TRUE ELSE mem_changed
  /\ last_write' = None
  /\ UNCHANGED <<mapped, scanner, main>>

\* a page of the target becomes accessible or inaccessible
MapChange ==
  /\ \E a \in Addr :
       mapped' = IF a \in mapped THEN mapped \ {a} ELSE mapped \cup {a}
  /\ last_write' = None
  /\ UNCHANGED <<mem, scanner, mem_changed, main>>

\* ------------------------------------------------------------ attach, detach
attach ==
  /\ pc = "idle"
  /\ handles < MaxHandles
  /\ \E opened \in BOOLEAN :
       IF opened
       THEN /\ pm' = "open"
            /\ handles' = handles + 1
            /\ ret' = Returned(1)
       ELSE /\ UNCHANGED <<pm, handles>>
            /\ ret' = Returned(0)
  /\ last_io' = <<"open", 0, 0>>
  /\ last_write' = None
  /\ discovery_ran' = IF pm' # pm THEN FALSE ELSE discovery_ran
  /\ UNCHANGED <<env, current_results, data_type, cached_regions, frame>>

detach ==
  /\ pc = "idle"
  /\ IF pm # "None"
     THEN /\ pm' = "None"
          /\ handles' = handles - 1
          /\ last_io' = <<"close", 0, 0>>
     ELSE /\ UNCHANGED <<pm, handles>>
          /\ last_io' = NoIo
  /\ ret' = NoRet
  /\ last_write' = None
  /\ discovery_ran' = IF pm' # pm THEN FALSE ELSE discovery_ran
  /\ UNCHANGED <<env, current_results, data_type, cached_regions, frame>>

set_data_type(dt) ==
  /\ pc = "idle"
  /\ data_type' = dt
  /\ ret' = NoRet
  /\ last_io' = NoIo
  /\ last_write' = None
  /\ UNCHANGED <<env, handles, pm, current_results, cached_regions, frame,
                 discovery_ran>>

\* a call that raises before it changed anything
RaiseUnchanged(e) ==
  /\ ret' = Raised(e)
  /\ last_io' = NoIo
  /\ last_write' = None
  /\ UNCHANGED <<env, handles, object, frame, discovery_ran>>

\* ------------------------------------------------------------ scan
\* scan with the clear of line 123 moved before the validation of lines 111-121
scan_clear_first(value) ==
  /\ pc = "idle"
  /\ current_results' = <<>>
  /\ IF data_type = "None" \/ ~CanPack(data_type, value)
     THEN /\ ret' = Raised("ValueError")
          /\ last_io' = NoIo
          /\ last_write' = None
          /\ UNCHANGED <<env, handles, pm, data_type, cached_regions, frame,
                         discovery_ran>>
     ELSE /\ target_value' = value
          /\ target_bytes' = Pack(data_type, value)
          /\ IF cached_regions = None
             THEN /\ pc' = "discover"
                  /\ region_idx' = 0
                  /\ discovery_ran' = TRUE
             ELSE /\ pc' = "scan"
                  /\ region_idx' = 1
                  /\ UNCHANGED discovery_ran
          /\ address' = 0
          /\ regions' = <<>>
          /\ offset' = 0
          /\ ret' = NoRet
          /\ last_io' = NoIo
          /\ last_write' = None
          /\ UNCHANGED <<env, handles, pm, data_type, cached_regions,
                         entry_idx, new_results, read_failed, mem_changed>>

\* scan without the test of line 125: every scan discovers the regions again
scan_always_discovers(value) ==
  /\ pc = "idle"
  /\ IF data_type = "None" THEN RaiseUnchanged("ValueError")
     ELSE IF ~CanPack(data_type, value) THEN RaiseUnchanged("ValueError")
     ELSE /\ target_value' = value
          /\ target_bytes' = Pack(data_type, value)
          /\ current_results' = <<>>
          /\ pc' = "discover"
          /\ region_idx' = 0
          /\ discovery_ran' = TRUE
          /\ address' = 0
          /\ regions' = <<>>
          /\ offset' = 0
          /\ ret' = NoRet
          /\ last_io' = NoIo
          /\ last_write' = None
          /\ UNCHANGED <<env, handles, pm, data_type, cached_regions,
                         entry_idx, new_results, read_failed, mem_changed>>

\* scan without the clear of line 123
scan_keep_results(value) ==
  /\ pc = "idle"
  /\ IF data_type = "None" THEN RaiseUnchanged("ValueError")
     ELSE IF ~CanPack(data_type, value) THEN RaiseUnchanged("ValueError")
     ELSE /\ target_value' = value
          /\ target_bytes' = Pack(data_type, value)
          /\ UNCHANGED current_results
          /\ IF cached_regions = None
             THEN /\ pc' = "discover"
                  /\ region_idx' = 0
                  /\ discovery_ran' = TRUE
             ELSE /\ pc' = "scan"
                  /\ region_idx' = 1
                  /\ UNCHANGED discovery_ran
          /\ address' = 0
          /\ regions' = <<>>
          /\ offset' = 0
          /\ ret' = NoRet
          /\ last_io' = NoIo
          /\ last_write' = None
          /\ UNCHANGED <<env, handles, pm, data_type, cached_regions,
                         entry_idx, new_results, read_failed, mem_changed>>

\* scan, lines 111-131: validation, clear, then discovery or the cached list
scan(value) ==
  /\ pc = "idle"
  /\ IF data_type = "None" THEN RaiseUnchanged("ValueError")
     ELSE IF ~CanPack(data_type, value) THEN RaiseUnchanged("ValueError")
     ELSE /\ target_value' = value
          /\ target_bytes' = Pack(data_type, value)
          /\ current_results' = <<>>
          /\ IF cached_regions = None
             THEN /\ pc' = "discover"
                  /\ region_idx' = 0
                  /\ discovery_ran' = TRUE
             ELSE /\ pc' = "scan"
                  /\ region_idx' = 1
                  /\ UNCHANGED discovery_ran
          /\ address' = 0
          /\ regions' = <<>>
          /\ offset' = 0
          /\ ret' = NoRet
          /\ last_io' = NoIo
          /\ last_write' = None
          /\ UNCHANGED <<env, handles, pm, data_type, cached_regions,
                         entry_idx, new_results, read_failed, mem_changed>>

\* a KeyboardInterrupt leaves the running method: its locals are gone
Interrupted ==
  /\ IdleFrame
  /\ ret' = Raised("KeyboardInterrupt")

\* the walk advancing one page after every query, whatever length it reported
DiscoverStep_page_advance ==
  /\ pc = "discover"
  /\ \E q \in QueryOutcomes :
       IF q.kind = "interrupt"
          THEN /\ last_io' = <<"query_interrupted", address, 0>>
               /\ Interrupted
               /\ UNCHANGED <<env, handles, object, discovery_ran, last_write, main>>
          ELSE \E probe \in IF q.kind = "ok" /\ q.State = MEM_COMMIT
                            THEN ReadOutcomes(address, Min(PAGE_SIZE, q.RegionSize))
                            ELSE {"none"} :
                 LET found == IF probe = "ok"
                              THEN Append(regions, <<address, q.RegionSize>>)
                              ELSE regions
                     next == address + PAGE_SIZE
                 IN  /\ last_io' = <<IF probe = "interrupt"
                                      THEN "query_probe_interrupted" ELSE "query",
                                      address, q.State>>
                     /\ IF next < MAX_ADDRESS
                        THEN /\ address' = next
                             /\ regions' = found
                             /\ UNCHANGED <<cached_regions, pc, region_idx>>
                        ELSE /\ cached_regions' = Some(found)
                             /\ pc' = "scan"
                             /\ region_idx' = 1
                             /\ address' = 0
                             /\ regions' = <<>>
                     /\ UNCHANGED <<env, handles, pm, current_results, data_type,
                                    target_value, target_bytes, offset, entry_idx,
                                    new_results, read_failed, mem_changed, ret,
                                    discovery_ran, last_write, main>>

\* the walk without the except of lines 95-97: a failed query ends it
DiscoverStep_abort ==
  /\ pc = "discover"
  /\ \E q \in QueryOutcomes :
       IF q.kind = "interrupt"
          THEN /\ last_io' = <<"query_interrupted", address, 0>>
               /\ Interrupted
               /\ UNCHANGED <<env, handles, object, discovery_ran, last_write, main>>
          ELSE \E probe \in IF q.kind = "ok" /\ q.State = MEM_COMMIT
                            THEN ReadOutcomes(address, Min(PAGE_SIZE, q.RegionSize))
                            ELSE {"none"} :
                 LET found == IF probe = "ok"
                              THEN Append(regions, <<address, q.RegionSize>>)
                              ELSE regions
                     next == IF q.kind = "fail"
                             THEN address + PAGE_SIZE
                             ELSE address + q.RegionSize
                 IN  /\ last_io' = <<IF probe = "interrupt"
                                      THEN "query_probe_interrupted" ELSE "query",
                                      address, q.State>>
                     /\ IF next < MAX_ADDRESS /\ q.kind # "fail"
                        THEN /\ address' = next
                             /\ regions' = found
                             /\ UNCHANGED <<cached_regions, pc, region_idx>>
                        ELSE /\ cached_regions' = Some(found)
                             /\ pc' = "scan"
                             /\ region_idx' = 1
                             /\ address' = 0
                             /\ regions' = <<>>
                     /\ UNCHANGED <<env, handles, pm, current_results, data_type,
                                    target_value, target_bytes, offset, entry_idx,
                                    new_results, read_failed, mem_changed, ret,
                                    discovery_ran, last_write, main>>

\* the walk admitting every committed region, whatever its probe read did
DiscoverStep_no_probe ==
  /\ pc = "discover"
  /\ \E q \in QueryOutcomes :
       IF q.kind = "interrupt"
          THEN /\ last_io' = <<"query_interrupted", address, 0>>
               /\ Interrupted
               /\ UNCHANGED <<env, handles, object, discovery_ran, last_write, main>>
          ELSE \E probe \in IF q.kind = "ok" /\ q.State = MEM_COMMIT
                            THEN ReadOutcomes(address, Min(PAGE_SIZE, q.RegionSize))
                            ELSE {"none"} :
                 LET found == IF probe # "none"
                              THEN Append(regions, <<address, q.RegionSize>>)
                              ELSE regions
                     next == IF q.kind = "fail"
                             THEN address + PAGE_SIZE
                             ELSE address + q.RegionSize
                 IN  /\ last_io' = <<IF probe = "interrupt"
                                      THEN "query_probe_interrupted" ELSE "query",
                                      address, q.State>>
                     /\ IF next < MAX_ADDRESS
                        THEN /\ address' = next
                             /\ regions' = found
                             /\ UNCHANGED <<cached_regions, pc, region_idx>>
                        ELSE /\ cached_regions' = Some(found)
                             /\ pc' = "scan"
                             /\ region_idx' = 1
                             /\ address' = 0
                             /\ regions' = <<>>
                     /\ UNCHANGED <<env, handles, pm, current_results, data_type,
                                    target_value, target_bytes, offset, entry_idx,
                                    new_results, read_failed, mem_changed, ret,
                                    discovery_ran, last_write, main>>

\* _get_readable_memory_regions, one iteration of the walk (lines 71-97): the
\* query, the probe read of a committed region, the advance.  When the walk
\* passes max_address the method returns (line 104) and scan caches the list
\* and goes on to its chunk loop (lines 129-131).
DiscoverStep ==
  /\ pc = "discover"
  /\ \E q \in QueryOutcomes :
       IF q.kind = "interrupt"
          THEN /\ last_io' = <<"query_interrupted", address, 0>>
               /\ Interrupted
               /\ UNCHANGED <<env, handles, object, discovery_ran, last_write, main>>
          ELSE \E probe \in IF q.kind = "ok" /\ q.State = MEM_COMMIT
                            THEN ReadOutcomes(address, Min(PAGE_SIZE, q.RegionSize))
                            ELSE {"none"} :
                 LET found == IF probe = "ok"
                              THEN Append(regions, <<address, q.RegionSize>>)
                              ELSE regions
                     next == IF q.kind = "fail"
                             THEN address + PAGE_SIZE
                             ELSE address + q.RegionSize
                 IN  /\ last_io' = <<IF probe = "interrupt"
                                      THEN "query_probe_interrupted" ELSE "query",
                                      address, q.State>>
                     /\ IF next < MAX_ADDRESS
                        THEN /\ address' = next
                             /\ regions' = found
                             /\ UNCHANGED <<cached_regions, pc, region_idx>>
                        ELSE /\ cached_regions' = Some(found)
                             /\ pc' = "scan"
                             /\ region_idx' = 1
                             /\ address' = 0
                             /\ regions' = <<>>
                     /\ UNCHANGED <<env, handles, pm, current_results, data_type,
                                    target_value, target_bytes, offset, entry_idx,
                                    new_results, read_failed, mem_changed, ret,
                                    discovery_ran, last_write, main>>

\* the inner loop with range(len(data) - size): the last offset is not compared
ChunkMatches_short(base, data) ==
  LET n == DATA_TYPES[data_type].size
      starts == [i \in 1..(Len(data) - n) |-> i - 1]
      hits == SelectSeq(starts, LAMBDA i : SubSeq(data, i + 1, i + n) = target_bytes)
  IN  [k \in 1..Len(hits) |->
         <<base + hits[k], Unpack(data_type, SubSeq(data, hits[k] + 1, hits[k] + n))>>]

\* the matches of one chunk appended from the highest offset down
ChunkMatches_descending(base, data) ==
  LET n == DATA_TYPES[data_type].size
      starts == [i \in 1..(Len(data) - n + 1) |-> Len(data) - n + 1 - i]
      hits == SelectSeq(starts, LAMBDA i : SubSeq(data, i + 1, i + n) = target_bytes)
  IN  [k \in 1..Len(hits) |->
         <<base + hits[k], Unpack(data_type, SubSeq(data, hits[k] + 1, hits[k] + n))>>]

\* lines 167-178: the matches of one chunk read at address base, in order
ChunkMatches(base, data) ==
  LET n == DATA_TYPES[data_type].size
      starts == [i \in 1..(Len(data) - n + 1) |-> i - 1]
      hits == SelectSeq(starts, LAMBDA i : SubSeq(data, i + 1, i + n) = target_bytes)
  IN  [k \in 1..Len(hits) |->
         <<base + hits[k], Unpack(data_type, SubSeq(data, hits[k] + 1, hits[k] + n))>>]

\* the chunk loop without the except of _read_memory_region: a failed read
\* leaves scan with the exception
ScanChunk_abort ==
  /\ pc = "scan"
  /\ region_idx <= Len(cached_regions[1])
  /\ LET start_address == cached_regions[1][region_idx][1]
         size == cached_regions[1][region_idx][2]
         actual_size == Min(CHUNK_SIZE, size - offset)
         more == offset + CHUNK_SIZE < size
     IN  \E outcome \in ReadOutcomes(start_address + offset, actual_size) :
           /\ last_io' = <<IF outcome = "interrupt" THEN "read_interrupted" ELSE "read",
                           start_address + offset, actual_size>>
           /\ IF outcome # "ok"
              THEN /\ IdleFrame
                   /\ ret' = Raised(IF outcome = "fail" THEN "Exception"
                                    ELSE "KeyboardInterrupt")
                   /\ UNCHANGED <<env, handles, object, discovery_ran, last_write,
                                  main>>
              ELSE /\ current_results' =
                        current_results \o
                        ChunkMatches(start_address + offset,
                                     Bytes(start_address + offset, actual_size))
                   /\ UNCHANGED read_failed
                   /\ region_idx' = IF more THEN region_idx ELSE region_idx + 1
                   /\ offset' = IF more THEN offset + CHUNK_SIZE ELSE 0
                   /\ UNCHANGED <<env, handles, pm, data_type, cached_regions, pc,
                                  target_value, target_bytes, address, regions,
                                  entry_idx, new_results, mem_changed, ret,
                                  discovery_ran, last_write, main>>

\* the chunk loop reading width - 1 bytes past the chunk, so that a window that
\* starts in the chunk and ends in the next one is compared too
ScanChunk_carry ==
  /\ pc = "scan"
  /\ region_idx <= Len(cached_regions[1])
  /\ LET start_address == cached_regions[1][region_idx][1]
         size == cached_regions[1][region_idx][2]
         actual_size == Min(CHUNK_SIZE + DATA_TYPES[data_type].size - 1, size - offset)
         more == offset + CHUNK_SIZE < size
     IN  \E outcome \in ReadOutcomes(start_address + offset, actual_size) :
           /\ last_io' = <<IF outcome = "interrupt" THEN "read_interrupted" ELSE "read",
                           start_address + offset, actual_size>>
           /\ IF outcome = "interrupt"
              THEN /\ Interrupted
                   /\ UNCHANGED <<env, handles, object, discovery_ran, last_write,
                                  main>>
              ELSE /\ current_results' =
                        IF outcome = "ok"
                        THEN current_results \o
                             ChunkMatches(start_address + offset,
                                          Bytes(start_address + offset, actual_size))
                        ELSE current_results
                   /\ read_failed' = (read_failed \/ outcome = "fail")
                   /\ region_idx' = IF more THEN region_idx ELSE region_idx + 1
                   /\ offset' = IF more THEN offset + CHUNK_SIZE ELSE 0
                   /\ UNCHANGED <<env, handles, pm, data_type, cached_regions, pc,
                                  target_value, target_bytes, address, regions,
                                  entry_idx, new_results, mem_changed, ret,
                                  discovery_ran, last_write, main>>

\* scan, one chunk of one region (lines 160-180)
ScanChunk ==
  /\ pc = "scan"
  /\ region_idx <= Len(cached_regions[1])
  /\ LET start_address == cached_regions[1][region_idx][1]
         size == cached_regions[1][region_idx][2]
         actual_size == Min(CHUNK_SIZE, size - offset)
         more == offset + CHUNK_SIZE < size
     IN  \E outcome \in ReadOutcomes(start_address + offset, actual_size) :
           /\ last_io' = <<IF outcome = "interrupt" THEN "read_interrupted" ELSE "read",
                           start_address + offset, actual_size>>
           /\ IF outcome = "interrupt"
              THEN /\ Interrupted
                   /\ UNCHANGED <<env, handles, object, discovery_ran, last_write,
                                  main>>
              ELSE /\ current_results' =
                        IF outcome = "ok"
                        THEN current_results \o
                             ChunkMatches(start_address + offset,
                                          Bytes(start_address + offset, actual_size))
                        ELSE current_results
                   /\ read_failed' = (read_failed \/ outcome = "fail")
                   /\ region_idx' = IF more THEN region_idx ELSE region_idx + 1
                   /\ offset' = IF more THEN offset + CHUNK_SIZE ELSE 0
                   /\ UNCHANGED <<env, handles, pm, data_type, cached_regions, pc,
                                  target_value, target_bytes, address, regions,
                                  entry_idx, new_results, mem_changed, ret,
                                  discovery_ran, last_write, main>>

\* scan, lines 182-183
ScanReturn ==
  /\ pc = "scan"
  /\ region_idx > Len(cached_regions[1])
  /\ IdleFrame
  /\ ret' = Returned(Len(current_results))
  /\ last_io' = NoIo
  /\ UNCHANGED <<env, handles, object, discovery_ran, last_write, main>>

\* ------------------------------------------------------------ filter_scan
\* filter_scan with new_results starting as a copy of the current results
filter_scan_copying(value) ==
  /\ pc = "idle"
  /\ IF data_type = "None" THEN RaiseUnchanged("ValueError")
     ELSE IF ~CanPack(data_type, value) THEN RaiseUnchanged("ValueError")
     ELSE /\ target_value' = value
          /\ target_bytes' = Pack(data_type, value)
          /\ pc' = "filter"
          /\ entry_idx' = 1
          /\ new_results' = current_results
          /\ ret' = NoRet
          /\ last_io' = NoIo
          /\ last_write' = IF last_write # None /\ last_write[1][2] = value
                           THEN last_write ELSE None
          /\ UNCHANGED <<env, handles, object, address, regions, region_idx,
                         offset, read_failed, mem_changed, discovery_ran>>

\* filter_scan, lines 190-202
filter_scan(value) ==
  /\ pc = "idle"
  /\ IF data_type = "None" THEN RaiseUnchanged("ValueError")
     ELSE IF ~CanPack(data_type, value) THEN RaiseUnchanged("ValueError")
     ELSE /\ target_value' = value
          /\ target_bytes' = Pack(data_type, value)
          /\ pc' = "filter"
          /\ entry_idx' = 1
          /\ new_results' = <<>>
          /\ ret' = NoRet
          /\ last_io' = NoIo
          /\ last_write' = IF last_write # None /\ last_write[1][2] = value
                           THEN last_write ELSE None
          /\ UNCHANGED <<env, handles, object, address, regions, region_idx,
                         offset, read_failed, mem_changed, discovery_ran>>

\* the loop keeping the stored entry instead of the value it decoded
FilterEntry_stale ==
  /\ pc = "filter"
  /\ entry_idx <= Len(current_results)
  /\ LET a == current_results[entry_idx][1]
         n == DATA_TYPES[data_type].size
     IN  \E outcome \in ReadOutcomes(a, n) :
           /\ last_io' = <<IF outcome = "interrupt" THEN "read_interrupted" ELSE "read",
                           a, n>>
           /\ new_results' =
                IF outcome = "ok" /\ Bytes(a, n) = target_bytes
                THEN Append(new_results, current_results[entry_idx])
                ELSE new_results
           /\ last_write' = IF outcome = "interrupt" THEN None ELSE last_write
  /\ entry_idx' = entry_idx + 1
  /\ UNCHANGED <<env, handles, object, pc, target_value, target_bytes, address,
                 regions, region_idx, offset, read_failed, mem_changed, ret,
                 discovery_ran, main>>

\* the loop re-reading one byte more than the width of the type
FilterEntry_wide ==
  /\ pc = "filter"
  /\ entry_idx <= Len(current_results)
  /\ LET a == current_results[entry_idx][1]
         n == DATA_TYPES[data_type].size + 1
     IN  \E outcome \in ReadOutcomes(a, n) :
           /\ last_io' = <<IF outcome = "interrupt" THEN "read_interrupted" ELSE "read",
                           a, n>>
           /\ new_results' =
                IF outcome = "ok" /\ Bytes(a, n) = target_bytes
                THEN Append(new_results, <<a, Unpack(data_type, Bytes(a, n))>>)
                ELSE new_results
           /\ last_write' = IF outcome = "interrupt" THEN None ELSE last_write
  /\ entry_idx' = entry_idx + 1
  /\ UNCHANGED <<env, handles, object, pc, target_value, target_bytes, address,
                 regions, region_idx, offset, read_failed, mem_changed, ret,
                 discovery_ran, main>>

\* the loop keeping an entry whose re-read failed
FilterEntry_keep_failed ==
  /\ pc = "filter"
  /\ entry_idx <= Len(current_results)
  /\ LET a == current_results[entry_idx][1]
         n == DATA_TYPES[data_type].size
     IN  \E outcome \in ReadOutcomes(a, n) :
           /\ last_io' = <<IF outcome = "interrupt" THEN "read_interrupted" ELSE "read",
                           a, n>>
           /\ new_results' =
                IF outcome = "ok" /\ Bytes(a, n) = target_bytes
                THEN Append(new_results, <<a, Unpack(data_type, Bytes(a, n))>>)
                ELSE IF outcome = "fail"
                THEN Append(new_results, current_results[entry_idx])
                ELSE new_results
           /\ last_write' = IF outcome = "interrupt" THEN None ELSE last_write
  /\ entry_idx' = entry_idx + 1
  /\ UNCHANGED <<env, handles, object, pc, target_value, target_bytes, address,
                 regions, region_idx, offset, read_failed, mem_changed, ret,
                 discovery_ran, main>>

\* filter_scan, one entry (lines 204-212); the bare except swallows whatever
\* the re-read raises, a KeyboardInterrupt included
FilterEntry ==
  /\ pc = "filter"
  /\ entry_idx <= Len(current_results)
  /\ LET a == current_results[entry_idx][1]
         n == DATA_TYPES[data_type].size
     IN  \E outcome \in ReadOutcomes(a, n) :
           /\ last_io' = <<IF outcome = "interrupt" THEN "read_interrupted" ELSE "read",
                           a, n>>
           /\ new_results' =
                IF outcome = "ok" /\ Bytes(a, n) = target_bytes
                THEN Append(new_results, <<a, Unpack(data_type, Bytes(a, n))>>)
                ELSE new_results
           /\ last_write' = IF outcome = "interrupt" THEN None ELSE last_write
  /\ entry_idx' = entry_idx + 1
  /\ UNCHANGED <<env, handles, object, pc, target_value, target_bytes, address,
                 regions, region_idx, offset, read_failed, mem_changed, ret,
                 discovery_ran, main>>

\* filter_scan, lines 214-215
FilterReturn ==
  /\ pc = "filter"
  /\ entry_idx > Len(current_results)
  /\ current_results' = new_results
  /\ IdleFrame
  /\ ret' = Returned(Len(new_results))
  /\ last_io' = NoIo
  /\ last_write' = None
  /\ UNCHANGED <<env, handles, pm, data_type, cached_regions, discovery_ran, main>>

\* ------------------------------------------------------------ write_value
\* write_value without the except of lines 237-239: a failed write raises
write_value_raising(a, value) ==
  /\ pc = "idle"
  /\ IF data_type = "None" THEN RaiseUnchanged("ValueError")
     ELSE IF ~CanPack(data_type, value)
     THEN /\ ret' = Returned(0)
          /\ last_io' = NoIo
          /\ last_write' = None
          /\ UNCHANGED <<env, handles, object, frame, discovery_ran>>
     ELSE LET packed == Pack(data_type, value)
              n == DATA_TYPES[data_type].size
          IN  \E outcome \in WriteOutcomes(a, n) :
                /\ mem' = IF outcome = "ok"
                          THEN [k \in Addr |->
                                  IF k >= a /\ k < a + n THEN packed[k - a + 1] ELSE mem[k]]
                          ELSE mem
                /\ ret' = IF outcome = "ok" THEN Returned(1) ELSE Raised("Exception")
                /\ last_io' = <<"write", a, n>>
                /\ last_write' = IF outcome = "ok" THEN Some(<<a, value>>) ELSE None
                /\ UNCHANGED <<mapped, handles, object, frame, discovery_ran>>

\* write_value also storing the written value in the entry of that address
write_value_refresh(a, value) ==
  /\ pc = "idle"
  /\ IF data_type = "None" THEN RaiseUnchanged("ValueError")
     ELSE IF ~CanPack(data_type, value)
     THEN /\ ret' = Returned(0)
          /\ last_io' = NoIo
          /\ last_write' = None
          /\ UNCHANGED <<env, handles, object, frame, discovery_ran>>
     ELSE LET packed == Pack(data_type, value)
              n == DATA_TYPES[data_type].size
          IN  \E outcome \in WriteOutcomes(a, n) :
                /\ mem' = IF outcome = "ok"
                          THEN [k \in Addr |->
                                  IF k >= a /\ k < a + n THEN packed[k - a + 1] ELSE mem[k]]
                          ELSE mem
                /\ ret' = Returned(IF outcome = "ok" THEN 1 ELSE 0)
                /\ last_io' = <<"write", a, n>>
                /\ last_write' = IF outcome = "ok" THEN Some(<<a, value>>) ELSE None
                /\ current_results' =
                     IF outcome = "ok"
                     THEN [i \in 1..Len(current_results) |->
                             IF current_results[i][1] = a
                             THEN <<a, value>> ELSE current_results[i]]
                     ELSE current_results
                /\ UNCHANGED <<mapped, handles, pm, data_type, cached_regions, frame,
                               discovery_ran>>

\* write_value, lines 226-239
write_value(a, value) ==
  /\ pc = "idle"
  /\ IF data_type = "None" THEN RaiseUnchanged("ValueError")
     ELSE IF ~CanPack(data_type, value)
     THEN /\ ret' = Returned(0)
          /\ last_io' = NoIo
          /\ last_write' = None
          /\ UNCHANGED <<env, handles, object, frame, discovery_ran>>
     ELSE LET packed == Pack(data_type, value)
              n == DATA_TYPES[data_type].size
          IN  \E outcome \in WriteOutcomes(a, n) :
                /\ mem' = IF outcome = "ok"
                          THEN [k \in Addr |->
                                  IF k >= a /\ k < a + n THEN packed[k - a + 1] ELSE mem[k]]
                          ELSE mem
                /\ ret' = Returned(IF outcome = "ok" THEN 1 ELSE 0)
                /\ last_io' = <<"write", a, n>>
                /\ last_write' = IF outcome = "ok" THEN Some(<<a, value>>) ELSE None
                /\ UNCHANGED <<mapped, handles, object, frame, discovery_ran>>

\* ------------------------------------------------------------ get_results
\* get_results, lines 217-219: returns the list object itself, not a copy
get_results ==
  /\ pc = "idle"
  /\ ret' = [kind |-> "results", val |-> 0]
  /\ last_io' = NoIo
  /\ last_write' = None
  /\ UNCHANGED <<env, handles, object, frame, discovery_ran>>

\* ------------------------------------------------------------ the scanner alone
\* any caller: the public methods called in any order, each run to its return
Init ==
  /\ ScannerInit
  /\ mpc = "api"
  /\ main_data_type = "None"
  /\ scanning_started = FALSE
  /\ new_value = 0

CallAttach == attach /\ UNCHANGED main
CallDetach == detach /\ UNCHANGED main
CallSetDataType == \E dt \in TypeNames : set_data_type(dt) /\ UNCHANGED main
CallScan == \E v \in Values : scan(v) /\ UNCHANGED main
CallFilterScan == \E v \in Values : filter_scan(v) /\ UNCHANGED main
CallWriteValue == \E a \in Addr, v \in Values : write_value(a, v) /\ UNCHANGED main

Next ==
  \/ MemChange
  \/ MapChange
  \/ DiscoverStep
  \/ ScanChunk
  \/ ScanReturn
  \/ FilterEntry
  \/ FilterReturn
  \/ CallAttach
  \/ CallDetach
  \/ CallSetDataType
  \/ CallScan
  \/ CallFilterScan
  \/ CallWriteValue

Spec == Init /\ [][Next]_vars

\* the walk of region discovery is a loop of the running call: while discovery
\* is in progress its next iteration is eventually executed
FairSpec == Init /\ [][Next]_vars /\ WF_vars(DiscoverStep)

\* ------------------------------------------------------------ main()
\* main.py lines 60-73, after a process was selected
MainInit ==
  /\ ScannerInit
  /\ mpc = "attach"
  /\ main_data_type = "None"
  /\ scanning_started = FALSE
  /\ new_value = 0

\* lines 61-64: return when attach fails
MainAttach ==
  /\ mpc = "attach"
  /\ attach
  /\ mpc' = IF pm' = "open" THEN "choose_type" ELSE "done"
  /\ UNCHANGED <<main_data_type, scanning_started, new_value>>

\* lines 68-73: the data-type prompt, outside the try block
MainChooseType ==
  /\ mpc = "choose_type"
  /\ \E dt \in TypeNames :
       /\ set_data_type(dt)
       /\ main_data_type' = dt
  /\ scanning_started' = FALSE
  /\ mpc' = "menu"
  /\ UNCHANGED new_value

\* a KeyboardInterrupt at the prompt of line 68 leaves main: no handler, no finally
MainChooseTypeInterrupt ==
  /\ mpc = "choose_type"
  /\ mpc' = "done"
  /\ UNCHANGED <<env, scanner, mem_changed, last_write, main_data_type,
                 scanning_started, new_value>>

\* option 1, lines 80-84: get_scan_value does not range-check
MainNewScan ==
  /\ mpc = "menu"
  /\ \E v \in Values : scan(v)
  /\ mpc' = "scan"
  /\ UNCHANGED <<main_data_type, scanning_started, new_value>>

\* the loop without the handlers of lines 171-174: an exception of scan is
\* reported and the menu is shown again
MainAfterScan_continue ==
  /\ mpc = "scan"
  /\ pc = "idle"
  /\ scanning_started' = (scanning_started \/ ret.kind = "return")
  /\ mpc' = "menu"
  /\ UNCHANGED <<env, scanner, mem_changed, last_write, main_data_type, new_value>>

\* lines 85-86, or the exception handlers of lines 171-174
MainAfterScan ==
  /\ mpc = "scan"
  /\ pc = "idle"
  /\ IF ret.kind = "return"
     THEN /\ scanning_started' = TRUE
          /\ mpc' = "menu"
     ELSE /\ mpc' = "finally"
          /\ UNCHANGED scanning_started
  /\ UNCHANGED <<env, scanner, mem_changed, last_write, main_data_type, new_value>>

\* option 2, lines 88-99
MainNextScan ==
  /\ mpc = "menu"
  /\ scanning_started
  /\ \E v \in Values : filter_scan(v)
  /\ mpc' = "filter"
  /\ UNCHANGED <<main_data_type, scanning_started, new_value>>

\* line 100 and line 149, or the exception handlers
MainAfterFilter ==
  /\ mpc = "filter"
  /\ pc = "idle"
  /\ mpc' = IF ret.kind = "return" THEN "menu" ELSE "finally"
  /\ UNCHANGED <<env, scanner, mem_changed, last_write, main_data_type,
                 scanning_started, new_value>>

\* option 4, lines 113-144: an entry of the result set is chosen by index, and
\* get_new_value lets an out-of-range value through on confirmation
MainEdit ==
  /\ mpc = "menu"
  /\ scanning_started
  /\ \E i \in 1..Len(current_results), v \in Values :
       /\ write_value(current_results[i][1], v)
       /\ new_value' = IF ret'.val = 1 THEN v ELSE 0
  /\ mpc' = IF ret'.val = 1 THEN "verify" ELSE "menu"
  /\ UNCHANGED <<main_data_type, scanning_started>>

\* lines 145-148: the verification filter after a successful write
MainVerify ==
  /\ mpc = "verify"
  /\ filter_scan(new_value)
  /\ new_value' = 0
  /\ mpc' = "filter"
  /\ UNCHANGED <<main_data_type, scanning_started>>

\* option 3, lines 102-111; option 4 when the operator cancels (lines 118-140)
MainViewResults ==
  /\ mpc = "menu"
  /\ scanning_started
  /\ get_results
  /\ UNCHANGED main

\* option 5 without line 160: the flag survives the change of type
MainChangeType_keep_started ==
  /\ mpc = "menu"
  /\ \E new_type \in TypeNames :
       /\ new_type # main_data_type
       /\ main_data_type' = new_type
       /\ set_data_type(new_type)
  /\ UNCHANGED <<mpc, new_value, scanning_started>>

\* option 5, lines 153-160
MainChangeType ==
  /\ mpc = "menu"
  /\ \E new_type \in TypeNames :
       /\ new_type # main_data_type
       /\ main_data_type' = new_type
       /\ set_data_type(new_type)
  /\ scanning_started' = FALSE
  /\ UNCHANGED <<mpc, new_value>>

\* option 6, lines 162-165
MainReset ==
  /\ mpc = "menu"
  /\ scanning_started
  /\ scanning_started' = FALSE
  /\ UNCHANGED <<env, scanner, mem_changed, last_write, mpc, main_data_type,
                 new_value>>

\* option 7, lines 167-169
MainQuit ==
  /\ mpc = "menu"
  /\ mpc' = "finally"
  /\ UNCHANGED <<env, scanner, mem_changed, last_write, main_data_type,
                 scanning_started, new_value>>

\* a KeyboardInterrupt at a prompt of the loop, lines 171-172
MainInterrupt ==
  /\ mpc \in {"menu", "verify"}
  /\ mpc' = "finally"
  /\ new_value' = 0
  /\ UNCHANGED <<env, scanner, mem_changed, last_write, main_data_type,
                 scanning_started>>

\* lines 175-176
MainFinally ==
  /\ mpc = "finally"
  /\ detach
  /\ mpc' = "done"
  /\ UNCHANGED <<main_data_type, scanning_started, new_value>>

MainNext ==
  \/ MemChange
  \/ MapChange
  \/ DiscoverStep
  \/ ScanChunk
  \/ ScanReturn
  \/ FilterEntry
  \/ FilterReturn
  \/ MainAttach
  \/ MainChooseType
  \/ MainChooseTypeInterrupt
  \/ MainNewScan
  \/ MainAfterScan
  \/ MainNextScan
  \/ MainAfterFilter
  \/ MainEdit
  \/ MainVerify
  \/ MainViewResults
  \/ MainChangeType
  \/ MainReset
  \/ MainQuit
  \/ MainInterrupt
  \/ MainFinally

MainSpec == MainInit /\ [][MainNext]_vars

\* the handlers of lines 171-174 and the finally block of lines 175-176 wait for
\* no input: once control is there, they are eventually executed
FairMainSpec ==
  /\ MainInit
  /\ [][MainNext]_vars
  /\ WF_vars(MainAfterScan)
  /\ WF_vars(MainAfterFilter)
  /\ WF_vars(MainFinally)

\* ============================================================ properties
Width == DATA_TYPES[data_type].size
Entries(results) == {results[i] : i \in 1..Len(results)}
ResultAddresses(results) == {results[i][1] : i \in 1..Len(results)}
RegionList == IF cached_regions = None THEN <<>> ELSE cached_regions[1]

\* every entry of filter_scan's loop was re-read: the call is about to return
FilterDone == pc = "filter" /\ entry_idx > Len(current_results)
\* every chunk of scan's loop was read: the call is about to return
ScanDone == pc = "scan" /\ region_idx > Len(RegionList)

\* C1: a filter_scan call that returns leaves a result set no larger than the
\* one it started from, and every address it keeps was in that set.
C1_FilterMonotonic ==
  [][(pc = "filter" /\ pc' = "idle")
       => /\ Len(current_results') <= Len(current_results)
          /\ ResultAddresses(current_results') \subseteq ResultAddresses(current_results)]_vars

\* a filter that kept one entry and dropped another
C1_Witness ==
  /\ FilterDone
  /\ Len(new_results) >= 1
  /\ Len(new_results) < Len(current_results)

\* a scan whose chunk reads all succeeded while the target's memory stood still
CleanScan == ScanDone /\ ~read_failed /\ ~mem_changed

\* the packed target occurs at offset k of region R
Occurs(R, k) == Bytes(R[1] + k, Width) = Pack(data_type, target_value)

\* the window of Width bytes at offset k lies in one chunk of the region
InOneChunk(k) == k \div CHUNK_SIZE = (k + Width - 1) \div CHUNK_SIZE

InSomeRegion(a, n) ==
  \E i \in 1..Len(RegionList) :
    RegionList[i][1] <= a /\ a + n <= RegionList[i][1] + RegionList[i][2]

\* the entries a step adds to the list a scan or a filter is building
Recorded ==
  (Entries(current_results') \ Entries(current_results))
    \cup (Entries(new_results') \ Entries(new_results))

\* C3: an entry (address, value) enters a result list only in a step whose read
\* covered the window of width bytes at that address and returned exactly the
\* packed target of the running scan or filter, with value the target and the
\* window inside some region of the cached list; a returning filter installs
\* only entries it recorded so.
C3_RecordedByRead ==
  [][\A e \in Recorded :
       \/ pc = "filter" /\ pc' = "idle" /\ e \in Entries(new_results)
       \/ /\ last_io'[1] = "read"
          /\ last_io'[2] <= e[1]
          /\ e[1] + Width <= last_io'[2] + last_io'[3]
          /\ Bytes(e[1], Width) = Pack(data_type, target_value)
          /\ e[2] = target_value
          /\ InSomeRegion(e[1], Width)]_vars

\* a filter about to return that follows a successful write_value(a, v) with
\* nothing in between, was called with v, and had none of its re-reads
\* interrupted
WriteThenFilterDone == FilterDone /\ last_write # None

C5_TypeChangeClears ==
  [][data_type' # data_type => current_results' = <<>>]_vars

\* C6: a filter_scan that started from an empty result set does not return a
\* count, and reads nothing.
C6_EmptyFilterIsError ==
  [][(pc = "filter" /\ current_results = <<>>)
       => /\ last_io'[1] # "read"
          /\ pc' = "idle" => ret'.kind # "return"]_vars

\* C7: a call of scan, filter_scan or write_value with no type selected, or
\* with a value the active type cannot encode, reports the error (ValueError,
\* or False from write_value), issues no handle operation, and leaves the
\* result set, the cached region list, the active type and the target's memory
\* as they were.
C7_InputErrorUntouched ==
  [][\A v \in Values :
       (/\ pc = "idle"
        /\ data_type = "None" \/ ~CanPack(data_type, v)
        /\ \/ scan(v)
           \/ filter_scan(v)
           \/ \E a \in Addr : write_value(a, v))
         => /\ pc' = "idle"
            /\ ret' \in {Raised("ValueError"), Returned(0)}
            /\ last_io' = NoIo
            /\ UNCHANGED <<current_results, cached_regions, data_type, mem>>]_vars

\* a call rejected for its value while a result set and a region list are held
C7_Witness ==
  /\ pc = "idle"
  /\ ret = Raised("ValueError")
  /\ data_type # "None"
  /\ current_results # <<>>
  /\ cached_regions # None

\* the chunk scan reads at region i, offset off: <<"read", address, length>>
ChunkOf(i, off) ==
  <<"read", RegionList[i][1] + off, Min(CHUNK_SIZE, RegionList[i][2] - off)>>

\* the occurrences of the packed target in the n bytes at base, ascending
MatchesIn(base, n) ==
  LET windows == [i \in 1..(n - Width + 1) |-> base + i - 1]
      hits == SelectSeq(windows,
                LAMBDA a : Bytes(a, Width) = Pack(data_type, target_value))
  IN  [k \in 1..Len(hits) |-> <<hits[k], target_value>>]

\* C8: every chunk step of a scan that is not interrupted reads its chunk,
\* appends exactly that chunk's matches when the read succeeds and nothing when
\* it fails, and moves on to the next chunk; scan is left only by an operator
\* interrupt or, after the last chunk, by returning the count.
C8_FailedChunkSkipped ==
  [][/\ (pc = "scan" /\ pc' = "scan" /\ <<region_idx, offset>>' # <<region_idx, offset>>)
          => LET io == ChunkOf(region_idx, offset)
                 more == offset + CHUNK_SIZE < RegionList[region_idx][2]
             IN  /\ last_io' = io
                 /\ current_results' =
                      current_results \o
                      (IF ReadOk(io[2], io[3]) THEN MatchesIn(io[2], io[3]) ELSE <<>>)
                 /\ <<region_idx, offset>>' =
                      IF more THEN <<region_idx, offset + CHUNK_SIZE>>
                      ELSE <<region_idx + 1, 0>>
     /\ (pc = "scan" /\ pc' = "idle")
          => \/ ret'.kind = "KeyboardInterrupt"
             \/ /\ ScanDone
                /\ ret' = Returned(Len(current_results))
                /\ UNCHANGED current_results]_vars

\* a scan that completed with a failed chunk read and another chunk's match
C8_Witness == ScanDone /\ read_failed /\ Len(current_results) >= 1

\* C9: when main has returned, the handle it opened is released, and no handle
\* is released twice.
C9_HandleReleased == (mpc = "done" => handles = 0) /\ handles >= 0

\* C10 as claimed: between an attach and the following detach region discovery
\* starts at most once.
C10_DiscoveryOnce ==
  [][(pc # "discover" /\ pc' = "discover") => ~discovery_ran]_vars

\* C10 as amended: discovery starts only while no region list is cached, a
\* discovery that completes caches its list, a cached list is never replaced,
\* and every chunk a scan reads lies in a region of the cached list.
C10_DiscoveryCached ==
  [][/\ (pc # "discover" /\ pc' = "discover") => cached_regions = None
     /\ (pc = "discover" /\ pc' = "scan") => cached_regions' # None
     /\ cached_regions # None => cached_regions' = cached_regions
     /\ (pc = "scan" /\ last_io' # last_io)
          => \/ last_io' = NoIo
             \/ /\ last_io'[1] \in {"read", "read_interrupted"}
                /\ \E i \in 1..Len(RegionList) :
                     /\ RegionList[i][1] <= last_io'[2]
                     /\ last_io'[2] + last_io'[3] <= RegionList[i][1] + RegionList[i][2]]_vars

\* a scan begun from the list cached by a discovery of the same attachment
C10_Witness ==
  /\ pc = "scan"
  /\ region_idx = 1
  /\ offset = 0
  /\ last_io = NoIo
  /\ discovery_ran
  /\ Len(RegionList) >= 1

\* C11: a step that releases the handle leaves no cached region list.
C11_DetachDropsCache ==
  [][(pm # "None" /\ pm' = "None") => cached_regions' = None]_vars

\* the width bytes at address a can be written: the handle is open and the
\* range is accessible
Writable(a) == pm = "open" /\ \A k \in a..(a + Width - 1) : k \in mapped

\* C12: with a type selected, write_value(a, v) returns a boolean and raises
\* nothing; it returns True only when v is encodable and the write of its
\* packed bytes at a was issued and completed, and it returns False, leaving
\* the target's memory as it was, when v is not encodable, the handle is
\* absent or the range is not accessible.
C12_WriteReturnsBool ==
  [][\A a \in Addr, v \in Values :
       (pc = "idle" /\ data_type # "None" /\ write_value(a, v))
         => /\ ret' \in {Returned(0), Returned(1)}
            /\ ret' = Returned(1)
                 => /\ CanPack(data_type, v)
                    /\ Writable(a)
                    /\ last_io' = <<"write", a, Width>>
                    /\ [i \in 1..Width |-> mem'[a + i - 1]] = Pack(data_type, v)
            /\ ret' = Returned(0) => mem' = mem
            /\ (~CanPack(data_type, v) \/ ~Writable(a)) => ret' = Returned(0)]_vars

\* a write issued on an open handle failed and write_value returned False
C12_Witness ==
  /\ pc = "idle"
  /\ pm = "open"
  /\ last_io[1] = "write"
  /\ ret = Returned(0)

\* C13: a step in which a KeyboardInterrupt is delivered during a query or a
\* read of scan, filter_scan or region discovery leaves the operation with the
\* KeyboardInterrupt, and the result set, the cached region list and the
\* active type are as they were before the step.
C13_InterruptAborts ==
  [][(/\ last_io' # last_io
      /\ last_io'[1] \in {"read_interrupted", "query_interrupted",
                          "query_probe_interrupted"})
       => /\ pc' = "idle"
          /\ ret' = Raised("KeyboardInterrupt")
          /\ UNCHANGED <<current_results, cached_regions, data_type>>]_vars

\* C14: filter_scan issues nothing on the handle but one read of width bytes
\* per entry of the result set it was called with, at that entry's address, in
\* order; it never queries a region, never starts discovery, never writes, and
\* the cached region list and the active type stay as they are.
C14_FilterReadsResultsOnly ==
  [][/\ (pc = "idle" /\ pc' = "filter")
          => last_io' = NoIo /\ UNCHANGED <<current_results, cached_regions, data_type>>
     /\ pc = "filter"
          => /\ pc' \in {"filter", "idle"}
             /\ UNCHANGED <<cached_regions, data_type>>
             /\ pc' = "filter" => UNCHANGED current_results
             /\ \/ last_io' = last_io /\ entry_idx' = entry_idx
                \/ pc' = "idle" /\ last_io' = NoIo
                \/ /\ entry_idx <= Len(current_results)
                   /\ entry_idx' = entry_idx + 1
                   /\ last_io'[1] \in {"read", "read_interrupted"}
                   /\ last_io'[2] = current_results[entry_idx][1]
                   /\ last_io'[3] = Width]_vars

\* a filter that re-read both entries of a result set of two
C14_Witness ==
  /\ FilterDone
  /\ Len(current_results) >= 2
  /\ last_io = <<"read", current_results[Len(current_results)][1], Width>>

\* a region list in which every region has a length and ends at or before the
\* base of the next one
Ascending(list) ==
  /\ \A i \in 1..Len(list) : list[i][2] >= 1
  /\ \A i \in 1..(Len(list) - 1) :
       /\ list[i][1] < list[i + 1][1]
       /\ list[i][1] + list[i][2] <= list[i + 1][1]

\* C15: the region list discovery builds, and the list it returns and scan
\* caches, is strictly ascending by base address and its regions do not overlap.
C15_RegionsAscending == Ascending(regions) /\ Ascending(RegionList)

\* a returned list of two regions with an address between them left out
C15_Witness ==
  /\ Len(RegionList) >= 2
  /\ RegionList[1][1] + RegionList[1][2] < RegionList[2][1]

NoDuplicates == Len(current_results) = Cardinality(Entries(current_results))

\* C17: scan reads each region in consecutive chunks of CHUNK_SIZE bytes from
\* the region base, the last one the remainder; when the target's memory stood
\* still, every entry of the finished scan is an occurrence of the packed target
\* whose window lies inside one chunk of a region, recorded once; when no chunk
\* read failed either, every such occurrence is recorded, and an occurrence
\* that straddles two chunks is not.
C17_ChunkedMatching ==
  /\ [](/\ (ScanDone /\ ~mem_changed)
             => /\ NoDuplicates
                /\ \A e \in Entries(current_results) :
                     /\ e[2] = target_value
                     /\ Bytes(e[1], Width) = Pack(data_type, target_value)
                     /\ \E i \in 1..Len(RegionList) :
                          \E k \in 0..(RegionList[i][2] - Width) :
                            e[1] = RegionList[i][1] + k /\ InOneChunk(k)
        /\ CleanScan
             => \A i \in 1..Len(RegionList) :
                  \A k \in 0..(RegionList[i][2] - Width) :
                    Occurs(RegionList[i], k)
                      => (InOneChunk(k)
                            <=> <<RegionList[i][1] + k, target_value>>
                                  \in Entries(current_results)))
  /\ [][(pc = "scan" /\ ~ScanDone /\ <<region_idx, offset>>' # <<region_idx, offset>>)
          => LET base == RegionList[region_idx][1]
                 size == RegionList[region_idx][2]
             IN  /\ offset % CHUNK_SIZE = 0
                 /\ offset < size
                 /\ last_io'[1] \in {"read", "read_interrupted"}
                 /\ last_io'[2] = base + offset
                 /\ last_io'[3] = Min(CHUNK_SIZE, size - offset)
                 /\ pc' = "scan"
                      => <<region_idx, offset>>' =
                           IF offset + CHUNK_SIZE < size
                           THEN <<region_idx, offset + CHUNK_SIZE>>
                           ELSE <<region_idx + 1, 0>>]_vars

\* a clean scan that left out an occurrence straddling two chunks
C17_Witness ==
  /\ CleanScan
  /\ \E i \in 1..Len(RegionList) :
       \E k \in 0..(RegionList[i][2] - Width) :
         /\ Occurs(RegionList[i], k)
         /\ ~InOneChunk(k)
         /\ <<RegionList[i][1] + k, target_value>> \notin Entries(current_results)

\* C18: each step of filter_scan's loop decides one entry and goes on to the
\* next: the entry is kept exactly when its re-read of width bytes completed
\* and returned the packed target, and then with the value decoded from those
\* bytes; otherwise only that entry is dropped.  The filter ends only after the
\* last entry, installing the entries it kept.
C18_PerEntryRule ==
  [][/\ (pc = "filter" /\ ~FilterDone /\ entry_idx' # entry_idx)
          => LET a == current_results[entry_idx][1]
                 kept == /\ last_io' = <<"read", a, Width>>
                         /\ ReadOk(a, Width)
                         /\ Bytes(a, Width) = Pack(data_type, target_value)
             IN  /\ pc' = "filter"
                 /\ entry_idx' = entry_idx + 1
                 /\ UNCHANGED current_results
                 /\ new_results' =
                      IF kept
                      THEN Append(new_results, <<a, Unpack(data_type, Bytes(a, Width))>>)
                      ELSE new_results
                 /\ kept => Unpack(data_type, Bytes(a, Width)) = target_value
     /\ (pc = "filter" /\ pc' = "idle")
          => (FilterDone /\ current_results' = new_results)]_vars

\* a filter that kept an entry and then dropped the last one, whose re-read
\* failed
C18_Witness ==
  /\ FilterDone
  /\ Len(new_results) >= 1
  /\ last_io[1] = "read"
  /\ last_io[2] = current_results[Len(current_results)][1]
  /\ ~ReadOk(last_io[2], last_io[3])
  /\ last_io[2] \notin ResultAddresses(new_results)

\* C19: a scan starts from an empty result set, so a running scan holds only
\* entries of its own target; the count scan returns, and the count filter_scan
\* returns, is the length of the result set the call leaves.
C19_ScanReplaces ==
  /\ [](/\ pc = "discover" => current_results = <<>>
        /\ pc = "scan" => \A e \in Entries(current_results) : e[2] = target_value)
  /\ [][/\ (pc = "idle" /\ pc' \in {"discover", "scan"}) => current_results' = <<>>
        /\ (pc \in {"scan", "filter"} /\ pc' = "idle" /\ ret'.kind = "return")
             => ret'.val = Len(current_results')]_vars

\* a call returned the count of a result set of two or more entries
C19_Witness ==
  /\ pc = "idle"
  /\ ret.kind = "return"
  /\ ret.val >= 2
  /\ ret.val = Len(current_results)

\* C20: an iteration of discovery that was not interrupted during its query
\* adds a region to the list exactly when the descriptor queried at the walk's
\* address reported MEM_COMMIT and the probe read at that address (one page, a
\* region being at least one page long) completed; the region it adds is
\* (that address, the reported length), and nothing else enters the list.
C20_AdmittedAfterProbe ==
  [][(pc = "discover" /\ (pc' = "scan" \/ (pc' = "discover" /\ address' # address)))
       => LET list == IF pc' = "scan" THEN cached_regions'[1] ELSE regions'
              admitted == list # regions
          IN  /\ admitted <=> /\ last_io' = <<"query", address, MEM_COMMIT>>
                              /\ ReadOk(address, PAGE_SIZE)
              /\ admitted
                   => /\ Len(list) = Len(regions) + 1
                      /\ list = Append(regions, <<address, list[Len(list)][2]>>)
                      /\ list[Len(list)][2] >= PAGE_SIZE
                      /\ pc' = "discover" => address' = address + list[Len(list)][2]]_vars

\* the walk left out a committed region whose probe read did not complete,
\* after admitting another one
C20_Witness ==
  /\ pc = "discover"
  /\ last_io[1] \in {"query", "query_probe_interrupted"}
  /\ last_io[3] = MEM_COMMIT
  /\ Len(regions) >= 1
  /\ regions[Len(regions)][1] # last_io[2]

\* C21: a write_value(a, v) call with a type selected and an encodable v is one
\* step that issues one write of width bytes at a and nothing else: it returns,
\* the result set, the cached region list and the active type are unchanged,
\* and no byte of the target outside the width bytes at a changes.
C21_SingleBoundedWrite ==
  [][\A a \in Addr, v \in Values :
       (/\ pc = "idle"
        /\ data_type # "None"
        /\ CanPack(data_type, v)
        /\ write_value(a, v))
         => /\ last_io' = <<"write", a, Width>>
            /\ pc' = "idle"
            /\ ret'.kind = "return"
            /\ UNCHANGED <<current_results, cached_regions, data_type>>
            /\ \A k \in Addr : (k < a \/ k >= a + Width) => mem'[k] = mem[k]]_vars

\* after a successful write the entry of the written address still stores the
\* value found by the scan
C21_Witness ==
  /\ pc = "idle"
  /\ last_write # None
  /\ \E e \in Entries(current_results) :
       e[1] = last_write[1][1] /\ e[2] # last_write[1][2]

\* C22: in main's loop the flag scanning_started becomes true only when a scan
\* has returned, and is false after attaching and after every change of the
\* active type; a filter is started, a write is issued and the results are
\* fetched only while the flag is true; so while the flag is true every entry
\* the scanner holds was recorded under the active type, its window of width
\* bytes lying inside a region of the cached list.
C22_MenuGating ==
  /\ [](scanning_started
          => \A e \in Entries(current_results) : InSomeRegion(e[1], Width))
  /\ [][/\ (~scanning_started /\ scanning_started')
             => (mpc = "scan" /\ pc = "idle" /\ ret.kind = "return")
        /\ (data_type' # data_type \/ (pm = "None" /\ pm' = "open"))
             => ~scanning_started'
        /\ (pc = "idle" /\ pc' = "filter") => scanning_started
        /\ (last_io'[1] = "write" /\ <<last_io, ret>>' # <<last_io, ret>>)
             => scanning_started
        /\ (ret'.kind = "results" /\ ret' # ret) => scanning_started]_vars

\* the menu with the flag false while the scanner still holds an entry found
\* under the previous, narrower type
C22_Witness ==
  /\ mpc = "menu"
  /\ ~scanning_started
  /\ data_type # "None"
  /\ \E e \in Entries(current_results) : ~InSomeRegion(e[1], Width)

\* all entries of a list store the same value
Homogeneous(list) == \A i, j \in 1..Len(list) : list[i][2] = list[j][2]

\* C23: in every state all entries of the result set store one value; the
\* entries a scan is recording, the entries a filter is keeping, and the result
\* set a completed scan or filter leaves, all store the decoded target of that
\* call.
C23_HomogeneousResults ==
  /\ [](/\ Homogeneous(current_results)
        /\ Homogeneous(new_results)
        /\ pc = "scan" => \A e \in Entries(current_results) : e[2] = target_value
        /\ pc = "filter" => \A e \in Entries(new_results) : e[2] = target_value)
  /\ [][(pc \in {"scan", "filter"} /\ pc' = "idle" /\ ret'.kind = "return")
          => \A e \in Entries(current_results') : e[2] = target_value]_vars

\* a filter that kept an entry under a target other than the value every entry
\* stored before
C23_Witness ==
  /\ FilterDone
  /\ Len(new_results) >= 1
  /\ \A e \in Entries(current_results) : e[2] # target_value

\* the addresses of a list grow strictly from each entry to the next
StrictlyAscending(list) ==
  \A i \in 1..(Len(list) - 1) : list[i][1] < list[i + 1][1]

\* C25: in every state the addresses of the result set, and of the list a
\* filter is building, are strictly ascending, hence pairwise distinct; a
\* returning filter leaves addresses of the set it started from, so the entries
\* it keeps are in the order they had.
C25_DistinctAscending ==
  /\ [](StrictlyAscending(current_results) /\ StrictlyAscending(new_results))
  /\ [][(pc = "filter" /\ pc' = "idle")
          => ResultAddresses(current_results') \subseteq ResultAddresses(current_results)]_vars

\* a filter that kept two entries of three
C25_Witness ==
  /\ FilterDone
  /\ Len(new_results) >= 2
  /\ Len(new_results) < Len(current_results)

\* an exception has escaped the scanner call main is waiting for
Escaped ==
  /\ mpc \in {"scan", "filter"}
  /\ pc = "idle"
  /\ ret.kind \in {"ValueError", "KeyboardInterrupt"}

\* the step made a call of write_value that returned False
WriteFailed ==
  /\ mpc = "menu"
  /\ last_io'[1] = "write"
  /\ <<last_io, ret>>' # <<last_io, ret>>
  /\ ret' = Returned(0)

\* C24: once an exception has escaped a scan or filter called from main's loop,
\* the scanner is left alone until the finally block detaches it, and that
\* detach eventually happens: the next step of main goes to the finally block,
\* the finally block only detaches, and nothing follows it. A write_value that
\* returns False leaves main at the menu with the result set as it was.
C24_ErrorsEndSession ==
  /\ [][/\ Escaped => (mpc' \in {mpc, "finally"} /\ UNCHANGED scanner)
        /\ mpc = "finally"
             => \/ mpc' = "finally" /\ UNCHANGED scanner
                \/ mpc' = "done" /\ pm' = "None" /\ pc' = "idle"
                     /\ UNCHANGED <<current_results, data_type>>
        /\ mpc = "done" => UNCHANGED <<scanner, main>>
        /\ WriteFailed => (mpc' = "menu" /\ UNCHANGED current_results)]_vars
  /\ (Escaped ~> (mpc = "done" /\ pm = "None"))

\* the ValueError of a scan for a value the active type cannot encode has
\* brought main to the finally block, the process still attached
C24_Witness ==
  /\ mpc = "finally"
  /\ ret = Raised("ValueError")
  /\ pm = "open"

====
